---- MODULE Spec2Model ----
(***************************************************************************)
(* State-machine model of plugins/modules/mongodb_document.py:             *)
(*   - class MongoDbInfo (get_info, __collect and the five collectors),    *)
(*     specification Spec;                                                 *)
(*   - validate_data_type and main, specification MainSpec.                *)
(*                                                                         *)
(* Python values are modelled as follows.                                  *)
(*   dict      a function whose domain is the set of keys; {} is Empty     *)
(*   list      a sequence                                                  *)
(*   BSON leaf a record [t, s, d]: t the type tag, s the payload as a      *)
(*             sequence of integers (code points of a str, nibbles of a    *)
(*             UUID, <<whole, tenths>> of a double), d the members of a    *)
(*             list value                                                  *)
(*   str used as a dict key or compared by the code: a TLA+ string         *)
(*   a filter token: the sequence of its pieces, "!" being one piece and   *)
(*             a maximal run of other characters being one piece           *)
(***************************************************************************)
EXTENDS Integers, Sequences, FiniteSets, TLC

VARIABLES
    info,          \* self.info of the MongoDbInfo object
    pc,            \* position of the running get_info ("idle": none running)
    todo,          \* keys of self.info['databases'] the loop of __collect has not visited yet
    dbname,        \* loop variable of __collect
    filter_,       \* argument filter_ of the get_info call that returned last
    result,        \* mapping returned by that call
    outcome,       \* "none" | "returned" | "raised": how the last get_info call ended
    failure,       \* the exception that left get_info ("none": no exception)
    warned,        \* module.warn calls made by the current get_info call, in order
    issued,        \* history: commands sent to the server by the current call, in order
    listed,        \* history: database names in this call's listDatabases response
    observed,      \* history: records the server returned to this call, per entity name
    failedAt,      \* history: subset whose command raised in the current call
    mpc,           \* position of main
    params,        \* module.params and the environment main runs in
    mlog,          \* history: operations main sent to the driver / server, in order
    mexit,         \* how main ended: "running" | "fail_json" | "exit_json" | "exception"
    mmsg,          \* which fail_json call ended main
    srv_version    \* srv_version of main

infoVars == <<info, pc, todo, dbname, filter_, result, outcome, failure, warned,
              issued, listed, observed, failedAt>>
mainVars == <<mpc, params, mlog, mexit, mmsg, srv_version>>
vars == <<infoVars, mainVars>>

-----------------------------------------------------------------------------
(* Bounds of the model *)

\* longest filter_ list passed to get_info
MaxFilterLen == 2

-----------------------------------------------------------------------------
(* Python values *)

Empty == [k \in {} |-> 0]

Str(cs)       == [t |-> "str",    s |-> cs,          d |-> <<>>]
Int64(n)      == [t |-> "int",    s |-> <<n>>,       d |-> <<>>]
Double(n, f)  == [t |-> "double", s |-> <<n, f>>,    d |-> <<>>]
Bool(b)       == [t |-> "bool",   s |-> <<b>>,       d |-> <<>>]
Uuid(ns)      == [t |-> "uuid",   s |-> ns,          d |-> <<>>]
List(vs)      == [t |-> "list",   s |-> <<>>,        d |-> vs]

\* a key already present keeps its value
DictUpdateFirstWins(a, b) ==
    [k \in DOMAIN a \cup DOMAIN b |-> IF k \in DOMAIN a THEN a[k] ELSE b[k]]

\* dict.update(other)
DictUpdate(a, b) ==
    [k \in DOMAIN a \cup DOMAIN b |-> IF k \in DOMAIN b THEN b[k] ELSE a[k]]

\* d[key] = val
DictSet(a, key, val) ==
    [k \in DOMAIN a \cup {key} |-> IF k = key THEN val ELSE a[k]]

\* isinstance(val, UUID)
IsUUID(val) == val.t = "uuid"

\* one digit of '%032x': 0..9 -> '0'..'9', 10..15 -> 'a'..'f'
HexDigit(n) == IF n < 10 THEN 48 + n ELSE 87 + n

\* UUID.hex
UuidHex(val) == Str([i \in 1..Len(val.s) |-> HexDigit(val.s[i])])

\* int(val) on a BSON number: a double is truncated, an integer kept
PyInt(val) == IF val.t = "double" THEN Int64(val.s[1]) ELSE val

-----------------------------------------------------------------------------
(* The server: the responses the administrative commands may return *)

Subsets == {"general", "databases", "total_size", "parameters", "users", "roles"}

\* exceptions the driver may raise from a command
Errors == {"AutoReconnect", "OperationFailure"}

\* '4.2'
V42 == Str(<<52, 46, 50>>)

ServerInfoResponses == { [version |-> V42, ok |-> Double(1, 0)] }

GetParameterResponses == { [quiet |-> Bool(0), ok |-> Double(1, 0)] }

DbD1  == [name |-> "d1", sizeOnDisk |-> Double(8, 5), empty |-> Bool(0)]
DbD1b == [name |-> "d1", empty |-> Bool(1)]
DbD2  == [name |-> "d2", sizeOnDisk |-> Int64(4), empty |-> Bool(0)]

ListDatabasesResponses ==
    { [databases |-> l, totalSize |-> Double(12, 5), ok |-> Double(1, 0)] :
        l \in { <<>>, <<DbD1>>, <<DbD2>>, <<DbD1, DbD2>>, <<DbD1, DbD1b>> } }

\* the str 'd1' or 'd2' as a BSON value
DbStr(db) == Str(<<100, IF db = "d1" THEN 49 ELSE 50>>)

\* the users and roles defined in the two databases
UserA1 == [user |-> "alice", db |-> DbStr("d1"), userId |-> Uuid(<<1, 10>>),
           mechanisms |-> List(<<Str(<<83>>)>>)]
UserA2 == [user |-> "alice", db |-> DbStr("d2"), userId |-> Uuid(<<15, 0>>),
           customData |-> List(<<Uuid(<<11, 2>>)>>)]

RoleR1 == [role |-> "rw", db |-> DbStr("d1"), isBuiltin |-> Bool(1)]
RoleR2 == [role |-> "rw", db |-> DbStr("d2"), privileges |-> List(<<>>)]

\* usersInfo on a database returns the users defined in it: none or one
UsersInfoResponses(db) ==
    { [users |-> l, ok |-> Double(1, 0)] :
        l \in { <<>> } \cup { <<u>> : u \in { r \in {UserA1, UserA2} : r.db = DbStr(db) } } }

\* rolesInfo on a database returns the roles defined in it: none or one
RolesInfoResponses(db) ==
    { [roles |-> l, ok |-> Double(1, 0)] :
        l \in { <<>> } \cup { <<u>> : u \in { r \in {RoleR1, RoleR2} : r.db = DbStr(db) } } }

-----------------------------------------------------------------------------
(* The collectors *)

\* the inner loop of get_roles_info: every item of elem except 'role'
RoleEntry(elem) == [key \in DOMAIN elem \ {"role"} |-> elem[key]]

RECURSIVE RolesDict(_, _)
RolesDict(res, roles_dict) ==
    IF res = <<>> THEN roles_dict
    ELSE RolesDict(Tail(res), DictSet(roles_dict, Head(res).role, RoleEntry(Head(res))))

get_roles_info(response) == RolesDict(response.roles, Empty)

\* the inner loop of get_users_info: every item of elem except 'user',
\* a UUID value replaced by its hex string
UserEntry(elem) ==
    [key \in DOMAIN elem \ {"user"} |->
        IF IsUUID(elem[key]) THEN UuidHex(elem[key]) ELSE elem[key]]

RECURSIVE UsersDict(_, _)
UsersDict(res, users_dict) ==
    IF res = <<>> THEN users_dict
    ELSE UsersDict(Tail(res), DictSet(users_dict, Head(res).user, UserEntry(Head(res))))

get_users_info(response) == UsersDict(response.users, Empty)

\* the inner loop of get_db_info: every item of elem except 'name', sizeOnDisk as int
DbEntry(elem) ==
    [key \in DOMAIN elem \ {"name"} |->
        IF key = "sizeOnDisk" THEN PyInt(elem[key]) ELSE elem[key]]

RECURSIVE DbDict(_, _)
DbDict(res, db_dict) ==
    IF res = <<>> THEN db_dict
    ELSE DbDict(Tail(res), DictSet(db_dict, Head(res).name, DbEntry(Head(res))))

get_db_info(response) ==
    [db_dict |-> DbDict(response.databases, Empty), total_size |-> PyInt(response.totalSize)]

\* get_parameters_info returns the response as it is
get_parameters_info(response) == response

-----------------------------------------------------------------------------
(* get_info: the filter *)

Bang == "!"

\* the tokens a caller may pass: each subset bare and '!'-prefixed, names that
\* are no subset ('bogus', '!bogus', '' and '!'), and a doubled prefix ('!!users')
Tokens ==
    { <<s>> : s \in Subsets } \cup { <<Bang, s>> : s \in Subsets }
    \cup { <<"bogus">>, <<Bang, "bogus">>, <<>>, <<Bang>>, <<Bang, Bang, "users">> }

Filters == UNION { [1..n -> Tokens] : n \in 0..MaxFilterLen }

\* fi.lstrip('!')
RECURSIVE LStrip(_)
LStrip(fi) == IF fi # <<>> /\ Head(fi) = Bang THEN LStrip(Tail(fi)) ELSE fi

\* s in self.info, s a str
InInfo(s, inf) == Len(s) = 1 /\ s[1] \in DOMAIN inf

\* x in a_list
InList(x, l) == \E i \in 1..Len(l) : l[i] = x

NewLists == [inc_list |-> <<>>, exc_list |-> <<>>, warned |-> <<>>, raised |-> FALSE]

\* a name that is no subset is taken for an inclusion
FilterStepKeepsUnknown(acc, fi, inf) ==
    IF fi = <<>> THEN [acc EXCEPT !.raised = TRUE]
    ELSE IF Head(fi) = Bang THEN [acc EXCEPT !.exc_list = Append(@, LStrip(fi))]
    ELSE [acc EXCEPT !.inc_list = Append(@, fi)]

\* one pass of the loop over filter_ (fi[0] of an empty str raises IndexError)
FilterStep(acc, fi, inf) ==
    IF ~InInfo(LStrip(fi), inf) THEN [acc EXCEPT !.warned = Append(@, fi)]
    ELSE IF fi = <<>> THEN [acc EXCEPT !.raised = TRUE]
    ELSE IF Head(fi) = Bang THEN [acc EXCEPT !.exc_list = Append(@, LStrip(fi))]
    ELSE [acc EXCEPT !.inc_list = Append(@, fi)]

RECURSIVE FilterLoop(_, _, _)
FilterLoop(fil, inf, acc) ==
    IF fil = <<>> \/ acc.raised THEN acc
    ELSE FilterLoop(Tail(fil), inf, FilterStep(acc, Head(fil), inf))

\* the exclusions are applied to the included subsets too
PartialInfoExcludesIncluded(inf, inc_list, exc_list) ==
    LET keys == IF inc_list # <<>>
                THEN { i \in DOMAIN inf : InList(<<i>>, inc_list) /\ ~InList(<<i>>, exc_list) }
                ELSE { i \in DOMAIN inf : ~InList(<<i>>, exc_list) }
    IN  [i \in keys |-> inf[i]]

\* the exclusions are dropped
PartialInfoIgnoresExcluded(inf, inc_list, exc_list) ==
    LET keys == IF inc_list # <<>>
                THEN { i \in DOMAIN inf : InList(<<i>>, inc_list) }
                ELSE DOMAIN inf
    IN  [i \in keys |-> inf[i]]

\* the two loops that fill partial_info
PartialInfo(inf, inc_list, exc_list) ==
    LET keys == IF inc_list # <<>>
                THEN { i \in DOMAIN inf : InList(<<i>>, inc_list) }
                ELSE { i \in DOMAIN inf : ~InList(<<i>>, exc_list) }
    IN  [i \in keys |-> inf[i]]

\* get_info after self.__collect(): what it returns, warns and whether it raises
Select(inf, fil) ==
    IF fil # <<>>
    THEN LET acc == FilterLoop(fil, inf, NewLists)
         IN  [raised |-> acc.raised,
              warned |-> acc.warned,
              result |-> IF acc.raised THEN Empty
                         ELSE PartialInfo(inf, acc.inc_list, acc.exc_list)]
    ELSE [raised |-> FALSE, warned |-> <<>>, result |-> inf]

-----------------------------------------------------------------------------
(* MongoDbInfo: the object and a get_info call, one action per command *)

NoneObserved == [users |-> Empty, roles |-> Empty]

\* MongoDbInfo.__init__
InfoInit ==
    /\ info = [general |-> Empty, databases |-> Empty, total_size |-> Empty,
               parameters |-> Empty, users |-> Empty, roles |-> Empty]
    /\ pc = "idle"
    /\ todo = {}
    /\ dbname = ""
    /\ filter_ = <<>>
    /\ result = Empty
    /\ outcome = "none"
    /\ failure = "none"
    /\ warned = <<>>
    /\ issued = <<>>
    /\ listed = {}
    /\ observed = NoneObserved
    /\ failedAt = "none"

\* the command sent at each position of __collect
CommandAt(p, db) ==
    CASE p = "general"    -> [cmd |-> "server_info",   db |-> "admin"]
      [] p = "parameters" -> [cmd |-> "getParameter",  db |-> "admin"]
      [] p = "databases"  -> [cmd |-> "listDatabases", db |-> "admin"]
      [] p = "users"      -> [cmd |-> "usersInfo",     db |-> db]
      [] p = "roles"      -> [cmd |-> "rolesInfo",     db |-> db]

\* the subset each position of __collect fills
SubsetAt(p) == p

\* the records of one response, added to the history of this call: per name the
\* record seen last and the databases that returned the name
RECURSIVE Observe(_, _, _, _)
Observe(obs, recs, names, db) ==
    IF recs = <<>> THEN obs
    ELSE LET n == Head(names)
             from == IF n \in DOMAIN obs THEN obs[n].from ELSE {}
         IN  Observe(DictSet(obs, n, [last |-> Head(recs), from |-> from \cup {db}]),
                     Tail(recs), Tail(names), db)

\* a caller calls get_info; __collect starts
Call ==
    /\ pc = "idle"
    /\ pc' = "general"
    /\ filter_' = <<>>
    /\ result' = Empty
    /\ outcome' = "none"
    /\ failure' = "none"
    /\ warned' = <<>>
    /\ issued' = <<>>
    /\ listed' = {}
    /\ observed' = NoneObserved
    /\ failedAt' = "none"
    /\ UNCHANGED <<info, todo, dbname, mainVars>>

\* self.info['general'] = self.client.server_info()
CollectGeneral ==
    /\ pc = "general"
    /\ \E r \in ServerInfoResponses : info' = [info EXCEPT !.general = r]
    /\ issued' = Append(issued, CommandAt(pc, dbname))
    /\ pc' = "parameters"
    /\ UNCHANGED <<todo, dbname, filter_, result, outcome, failure, warned, listed,
                   observed, failedAt, mainVars>>

\* self.info['parameters'] = self.get_parameters_info()
CollectParameters ==
    /\ pc = "parameters"
    /\ \E r \in GetParameterResponses :
           info' = [info EXCEPT !.parameters = get_parameters_info(r)]
    /\ issued' = Append(issued, CommandAt(pc, dbname))
    /\ pc' = "databases"
    /\ UNCHANGED <<todo, dbname, filter_, result, outcome, failure, warned, listed,
                   observed, failedAt, mainVars>>

\* the loop visits one database only
LoopOverFirstOnly(names) ==
    IF names = {} \/ pc = "roles"
    THEN pc' = "filter" /\ todo' = {} /\ dbname' = dbname
    ELSE \E n \in names : pc' = "users" /\ dbname' = n /\ todo' = names \ {n}

\* for dbname, val in iteritems(self.info['databases']): the next key, in the
\* order of the dict (any order), or the end of __collect
Loop(names) ==
    IF names = {}
    THEN pc' = "filter" /\ todo' = {} /\ dbname' = dbname
    ELSE \E n \in names : pc' = "users" /\ dbname' = n /\ todo' = names \ {n}

\* self.info['databases'], self.info['total_size'] = self.get_db_info()
CollectDatabases ==
    /\ pc = "databases"
    /\ \E r \in ListDatabasesResponses :
         LET got == get_db_info(r)
         IN  /\ info' = [info EXCEPT !.databases = got.db_dict,
                                     !.total_size = got.total_size]
             /\ listed' = { r.databases[i].name : i \in 1..Len(r.databases) }
             /\ Loop(DOMAIN got.db_dict)
    /\ issued' = Append(issued, CommandAt(pc, dbname))
    /\ UNCHANGED <<filter_, result, outcome, failure, warned, observed, failedAt,
                   mainVars>>

\* self.info['users'].update(self.get_users_info(dbname))
CollectUsers ==
    /\ pc = "users"
    /\ \E r \in UsersInfoResponses(dbname) :
         /\ info' = [info EXCEPT !.users = DictUpdate(@, get_users_info(r))]
         /\ observed' = [observed EXCEPT !.users =
                Observe(@, r.users, [i \in 1..Len(r.users) |-> r.users[i].user], dbname)]
    /\ issued' = Append(issued, CommandAt(pc, dbname))
    /\ pc' = "roles"
    /\ UNCHANGED <<todo, dbname, filter_, result, outcome, failure, warned, listed,
                   failedAt, mainVars>>

\* self.info['roles'].update(self.get_roles_info(dbname)), then the next pass
CollectRoles ==
    /\ pc = "roles"
    /\ \E r \in RolesInfoResponses(dbname) :
         /\ info' = [info EXCEPT !.roles = DictUpdate(@, get_roles_info(r))]
         /\ observed' = [observed EXCEPT !.roles =
                Observe(@, r.roles, [i \in 1..Len(r.roles) |-> r.roles[i].role], dbname)]
    /\ issued' = Append(issued, CommandAt(pc, dbname))
    /\ Loop(todo)
    /\ UNCHANGED <<filter_, result, outcome, failure, warned, listed, failedAt,
                   mainVars>>

\* the exception is caught and __collect goes on with the next command
CommandRaisesSwallowed ==
    /\ pc \in {"general", "parameters", "databases", "users", "roles"}
    /\ \E e \in Errors : failure' = e
    /\ outcome' = "raised"
    /\ failedAt' = SubsetAt(pc)
    /\ issued' = Append(issued, CommandAt(pc, dbname))
    /\ pc' = CASE pc = "general"    -> "parameters"
               [] pc = "parameters" -> "databases"
               [] pc = "databases"  -> "filter"
               [] pc = "users"      -> "roles"
               [] pc = "roles"      -> "filter"
    /\ UNCHANGED <<info, todo, dbname, filter_, result, warned, listed, observed,
                   mainVars>>

\* a command raises: neither __collect nor get_info has a try, so the driver's
\* exception leaves get_info as it is and the rest of the call is not run
CommandRaises ==
    /\ pc \in {"general", "parameters", "databases", "users", "roles"}
    /\ \E e \in Errors : failure' = e
    /\ outcome' = "raised"
    /\ failedAt' = SubsetAt(pc)
    /\ issued' = Append(issued, CommandAt(pc, dbname))
    /\ pc' = "idle"
    /\ UNCHANGED <<info, todo, dbname, filter_, result, warned, listed, observed,
                   mainVars>>

\* the rest of get_info, lines 157-187, for the filter_ the caller passed
\* (filter_ is not read before this point)
Return ==
    /\ pc = "filter"
    /\ \E fil \in Filters :
         LET sel == Select(info, fil)
         IN  /\ filter_' = fil
             /\ warned' = sel.warned
             /\ result' = sel.result
             /\ outcome' = IF sel.raised THEN "raised" ELSE "returned"
             /\ failure' = IF sel.raised THEN "IndexError" ELSE failure
             /\ failedAt' = IF sel.raised THEN "filter" ELSE failedAt
    /\ pc' = "idle"
    /\ UNCHANGED <<info, todo, dbname, issued, listed, observed, mainVars>>

-----------------------------------------------------------------------------
(* validate_data_type and main *)

\* values of the parameter data (type='raw'): None, {}, a dict, [], a list, '', a str
DataValues ==
    { [type |-> "NoneType", truthy |-> FALSE],
      [type |-> "dict",     truthy |-> FALSE],
      [type |-> "dict",     truthy |-> TRUE],
      [type |-> "list",     truthy |-> FALSE],
      [type |-> "list",     truthy |-> TRUE],
      [type |-> "str",      truthy |-> FALSE],
      [type |-> "str",      truthy |-> TRUE] }

\* values of the parameter state; 'choises' is no key of an argument spec, so any
\* string passes, and without a default an omitted state is None
StateValues == {"find", "find_one", "insert_one", "insert_many", "other", "None"}

\* versions as (major, minor)
ServerVersions == { <<3, 6>>, <<4, 2>> }
DriverVersions == { <<3, 7>>, <<3, 9>> }

\* a <= b for two versions
VersionLeq(a, b) == a[1] < b[1] \/ (a[1] = b[1] /\ a[2] <= b[2])

\* the policy table: driver range -> server range
CompatibilityPolicy ==
    { [driver_lo |-> <<3, 7>>, driver_hi |-> <<3, 8>>, server_lo |-> <<3, 6>>, server_hi |-> <<4, 0>>],
      [driver_lo |-> <<3, 9>>, driver_hi |-> <<3, 9>>, server_lo |-> <<3, 6>>, server_hi |-> <<4, 2>>] }

\* check_compatibility: TRUE when an entry of the table covers the pair
check_compatibility(srv, driver) ==
    \E e \in CompatibilityPolicy :
        /\ VersionLeq(e.driver_lo, driver) /\ VersionLeq(driver, e.driver_hi)
        /\ VersionLeq(e.server_lo, srv) /\ VersionLeq(srv, e.server_hi)

\* validate_data_type: the fail_json call that ends the module, or "ok"
validate_data_type(state, data) ==
    IF ~(data.type = "dict") \/ ~(data.type = "list")
    THEN "data must be a dict or list"
    ELSE IF state = "insert_many" /\ ~(data.type = "list")
    THEN "data must be a list when state=insert_many"
    ELSE "ok"

NoParams ==
    [pymongo_found |-> TRUE, login_user |-> FALSE, ssl |-> FALSE, state |-> "None",
     data |-> [type |-> "NoneType", truthy |-> FALSE], driver_version |-> <<3, 9>>]

\* main has not been started
MainIdle ==
    /\ mpc = "off"
    /\ params = NoParams
    /\ mlog = <<>>
    /\ mexit = "running"
    /\ mmsg = "none"
    /\ srv_version = <<>>

\* main is started with some parameters on a host with some driver
MainInit ==
    /\ mpc = "start"
    /\ params \in [pymongo_found : BOOLEAN, login_user : BOOLEAN, ssl : BOOLEAN,
                   state : StateValues, data : DataValues,
                   driver_version : DriverVersions]
    /\ mlog = <<>>
    /\ mexit = "running"
    /\ mmsg = "none"
    /\ srv_version = <<>>

\* module.fail_json(msg): the module exits
FailJson(msg) ==
    /\ mexit' = "fail_json"
    /\ mmsg' = msg
    /\ mpc' = "done"

\* if not pymongo_found: module.fail_json(...)
MainCheckDriver ==
    /\ mpc = "start"
    /\ IF ~params.pymongo_found
       THEN FailJson("missing_required_lib")
       ELSE mpc' = "validate" /\ UNCHANGED <<mexit, mmsg>>
    /\ UNCHANGED <<params, mlog, srv_version, infoVars>>

\* if data: validate_data_type(module, state, data)
MainValidate ==
    /\ mpc = "validate"
    /\ IF params.data.truthy /\ validate_data_type(params.state, params.data) # "ok"
       THEN FailJson(validate_data_type(params.state, params.data))
       ELSE mpc' = "connect" /\ UNCHANGED <<mexit, mmsg>>
    /\ UNCHANGED <<params, mlog, srv_version, infoVars>>

\* client = MongoClient(**connection_params); an exception is not caught
MainConnect ==
    /\ mpc = "connect"
    /\ mlog' = Append(mlog, "connect")
    /\ \/ mpc' = "authenticate" /\ UNCHANGED <<mexit, mmsg>>
       \/ mpc' = "done" /\ mexit' = "exception" /\ mmsg' = "MongoClient"
    /\ UNCHANGED <<params, srv_version, infoVars>>

\* if login_user: client.admin.authenticate(...)
MainAuthenticate ==
    /\ mpc = "authenticate"
    /\ IF params.login_user
       THEN /\ mlog' = Append(mlog, "authenticate")
            /\ \/ mpc' = "server_version" /\ UNCHANGED <<mexit, mmsg>>
               \/ FailJson("Unable to authenticate")
       ELSE mpc' = "server_version" /\ UNCHANGED <<mlog, mexit, mmsg>>
    /\ UNCHANGED <<params, srv_version, infoVars>>

\* the server version is read and the document operation run at once
MainServerVersionThenExecute ==
    /\ mpc = "server_version"
    /\ mlog' = Append(mlog, "server_info")
    /\ \/ \E v \in ServerVersions :
             srv_version' = v /\ mpc' = "execute" /\ UNCHANGED <<mexit, mmsg>>
       \/ FailJson("Unable to get MongoDB server version") /\ UNCHANGED srv_version
    /\ UNCHANGED <<params, infoVars>>

\* srv_version = LooseVersion(client.server_info()['version'])
MainServerVersion ==
    /\ mpc = "server_version"
    /\ mlog' = Append(mlog, "server_info")
    /\ \/ \E v \in ServerVersions :
             srv_version' = v /\ mpc' = "compatibility" /\ UNCHANGED <<mexit, mmsg>>
       \/ FailJson("Unable to get MongoDB server version") /\ UNCHANGED srv_version
    /\ UNCHANGED <<params, infoVars>>

\* check_compatibility(module, srv_version, driver_version)
MainCheckCompatibility ==
    /\ mpc = "compatibility"
    /\ mlog' = Append(mlog, "check_compatibility")
    /\ IF check_compatibility(srv_version, params.driver_version)
       THEN mpc' = "execute" /\ UNCHANGED <<mexit, mmsg>>
       ELSE FailJson("IncompatibleVersions")
    /\ UNCHANGED <<params, srv_version, infoVars>>

\* mongodb = MongoDbCollection(module, db, collection)
\* module.exit_json(changed=False, **mongodb.execute(state, data))
MainExecute ==
    /\ mpc = "execute"
    /\ mlog' = Append(mlog, "execute")
    /\ mexit' = "exit_json"
    /\ mpc' = "done"
    /\ UNCHANGED <<params, mmsg, srv_version, infoVars>>

-----------------------------------------------------------------------------
(* The specifications *)

Init == InfoInit /\ MainIdle

Next ==
    \/ Call
    \/ CollectGeneral
    \/ CollectParameters
    \/ CollectDatabases
    \/ CollectUsers
    \/ CollectRoles
    \/ CommandRaises
    \/ Return

Spec == Init /\ [][Next]_vars

InitOfMain == InfoInit /\ MainInit

NextOfMain ==
    \/ MainCheckDriver
    \/ MainValidate
    \/ MainConnect
    \/ MainAuthenticate
    \/ MainServerVersion
    \/ MainCheckCompatibility
    \/ MainExecute

MainSpec == InitOfMain /\ [][NextOfMain]_vars

-----------------------------------------------------------------------------
(* The claims about the filter of get_info (Spec) *)

\* the subsets named by the bare tokens of a filter
BareNamed(fil) == { s \in Subsets : \E i \in 1..Len(fil) : fil[i] = <<s>> }

\* tok is the name s behind a '!' prefix
Excludes(tok, s) ==
    /\ Len(tok) >= 2
    /\ tok[Len(tok)] = s
    /\ \A j \in 1..(Len(tok) - 1) : tok[j] = Bang

\* the subsets named by the '!'-prefixed tokens of a filter
ExcludedNamed(fil) == { s \in Subsets : \E i \in 1..Len(fil) : Excludes(fil[i], s) }

\* the token, without its '!' prefix, names none of the six subsets
Unrecognised(tok) == \A s \in Subsets : tok # <<s>> /\ ~Excludes(tok, s)

\* fil without its i-th token
Without(fil, i) == [j \in 1..(Len(fil) - 1) |-> IF j < i THEN fil[j] ELSE fil[j + 1]]

\* the last get_info call got as far as the filter
Filtered == outcome = "returned" \/ failedAt = "filter"

\* C1: when filter_ holds at least one bare token naming a subset, get_info
\* returns exactly the subsets the bare tokens name, each with its aggregated
\* value, whatever '!'-prefixed tokens are present.
C1_InclusionWins ==
    (Filtered /\ BareNamed(filter_) # {}) =>
        /\ outcome = "returned"
        /\ DOMAIN result = BareNamed(filter_)
        /\ \A k \in DOMAIN result : result[k] = info[k]

C1_Witness ==
    /\ outcome = "returned"
    /\ filter_ = << <<Bang, "users">>, <<"users">> >>
    /\ DOMAIN result = {"users"}
    /\ "alice" \in DOMAIN result["users"]

\* C2: when filter_ holds no bare token naming a subset, get_info returns the
\* six subsets minus those named by '!'-prefixed tokens, each with its
\* aggregated value; all six for the empty filter_.
C2_DefaultMinusExcluded ==
    (Filtered /\ BareNamed(filter_) = {}) =>
        /\ outcome = "returned"
        /\ DOMAIN result = Subsets \ ExcludedNamed(filter_)
        /\ \A k \in DOMAIN result : result[k] = info[k]
        /\ (filter_ = <<>> => DOMAIN result = Subsets)

C2_Witness ==
    /\ outcome = "returned"
    /\ filter_ = << <<Bang, "users">>, <<Bang, "roles">> >>
    /\ DOMAIN result = {"general", "databases", "total_size", "parameters"}
    /\ "d1" \in DOMAIN result["databases"]

\* C3: a token that names none of the six subsets does not make get_info fail;
\* one warning is recorded for it, and the mapping returned is the one returned
\* for filter_ without that token.
C3_UnknownTokenSkipped ==
    Filtered =>
        /\ outcome = "returned"
        /\ warned = SelectSeq(filter_, Unrecognised)
        /\ \A i \in 1..Len(filter_) :
              Unrecognised(filter_[i]) =>
                  LET other == Select(info, Without(filter_, i))
                  IN  ~other.raised /\ result = other.result

C3_Witness ==
    /\ outcome = "returned"
    /\ filter_ = << <<"bogus">>, <<>> >>
    /\ warned = << <<"bogus">>, <<>> >>
    /\ DOMAIN result = Subsets
    /\ "alice" \in DOMAIN result["users"]

-----------------------------------------------------------------------------
(* The claims about the collection (Spec) *)

\* a command raised in the last get_info call
CommandFailed == outcome = "raised" /\ failedAt \in Subsets

\* the subsets a failure that reached the caller names: an exception of the
\* driver carries the driver's own text and names no subset
SubsetsNamedBy(f) == { s \in Subsets : f = s }

\* the call stopped at the command that raised and returned no mapping
AbortedAtFailure ==
    /\ pc = "idle"
    /\ result = Empty
    /\ issued # <<>>
    /\ issued[Len(issued)] = CommandAt(failedAt, dbname)

C6_BuiltFreshPerCall ==
    outcome = "returned" =>
        /\ "users" \in DOMAIN result =>
               \A n \in DOMAIN result["users"] : n \in DOMAIN observed.users
        /\ "roles" \in DOMAIN result =>
               \A n \in DOMAIN result["roles"] : n \in DOMAIN observed.roles

\* a UUID occurs in val, at the top or inside a list
RECURSIVE ContainsUUID(_)
ContainsUUID(val) ==
    \/ val.t = "uuid"
    \/ \E i \in 1..Len(val.d) : ContainsUUID(val.d[i])

\* val with every UUID in it, at any depth, replaced by its hex string
RECURSIVE HexEverywhere(_)
HexEverywhere(val) ==
    IF val.t = "uuid"
    THEN Str([i \in 1..Len(val.s) |->
                 IF val.s[i] < 10 THEN 48 + val.s[i] ELSE 97 + (val.s[i] - 10)])
    ELSE [val EXCEPT !.d = [i \in 1..Len(val.d) |-> HexEverywhere(val.d[i])]]

\* C7: for every user record returned by usersInfo, every UUID anywhere in the
\* record is its lowercase hex string in the users output, no UUID remains
\* there, and every other field except 'user' is passed through unchanged.
C7_NoUuidRemains ==
    \A n \in DOMAIN observed.users :
        LET rec == observed.users[n].last
            entry == info.users[n]
        IN  /\ DOMAIN entry = DOMAIN rec \ {"user"}
            /\ \A k \in DOMAIN entry :
                  /\ entry[k] = HexEverywhere(rec[k])
                  /\ ~ContainsUUID(entry[k])

\* the number of times a command was sent in this call
TimesIssued(c) == Cardinality({ i \in 1..Len(issued) : issued[i] = c })

\* the position of listDatabases in this call (0: not sent yet)
ListedAt ==
    IF \E i \in 1..Len(issued) : issued[i].cmd = "listDatabases"
    THEN CHOOSE i \in 1..Len(issued) : issued[i].cmd = "listDatabases"
    ELSE 0

\* C9: usersInfo and rolesInfo are sent only after listDatabases has returned,
\* only for names of its response, at most once each, and the collection is
\* complete only when each has been sent exactly once for every such name.
C9_OncePerListedDatabase ==
    /\ \A i \in 1..Len(issued) :
          issued[i].cmd \in {"usersInfo", "rolesInfo"} =>
              /\ ListedAt # 0 /\ ListedAt < i
              /\ issued[i].db \in listed
              /\ TimesIssued(issued[i]) = 1
    /\ (pc = "filter" \/ outcome = "returned") =>
          /\ ListedAt # 0
          /\ \A n \in listed :
                /\ TimesIssued([cmd |-> "usersInfo", db |-> n]) = 1
                /\ TimesIssued([cmd |-> "rolesInfo", db |-> n]) = 1
          /\ Len(issued) = 3 + 2 * Cardinality(listed)

C9_Witness ==
    /\ outcome = "returned"
    /\ listed = {"d1", "d2"}
    /\ Len(issued) = 7
    /\ issued[7].cmd = "rolesInfo"

\* C10: when two databases return a user (a role) of the same name, the entry
\* under that name after the collection is the record of the database visited
\* later, and nothing of the earlier record is left in it.
C10_LaterDatabaseWins ==
    (pc = "filter" \/ outcome = "returned") =>
        /\ \A n \in DOMAIN observed.users :
              Cardinality(observed.users[n].from) >= 2 =>
                  /\ n \in DOMAIN info.users
                  /\ info.users[n] = UserEntry(observed.users[n].last)
        /\ \A n \in DOMAIN observed.roles :
              Cardinality(observed.roles[n].from) >= 2 =>
                  /\ n \in DOMAIN info.roles
                  /\ DOMAIN info.roles[n] = DOMAIN observed.roles[n].last \ {"role"}
                  /\ \A k \in DOMAIN info.roles[n] :
                        info.roles[n][k] = observed.roles[n].last[k]

C10_Witness ==
    /\ outcome = "returned"
    /\ "alice" \in DOMAIN observed.users
    /\ observed.users["alice"].from = {"d1", "d2"}
    /\ observed.users["alice"].last = UserA2
    /\ DOMAIN info.users["alice"] = {"db", "userId", "customData"}

-----------------------------------------------------------------------------
(* The claims about main and validate_data_type (MainSpec) *)

\* validate_data_type was called in this run
Validated == mpc \notin {"start", "validate"} /\ params.pymongo_found /\ params.data.truthy

\* validate_data_type ended the module
ValidationFailed ==
    mmsg \in {"data must be a dict or list", "data must be a list when state=insert_many"}

\* C8: validate_data_type fails exactly when data is neither a dict nor a list,
\* or when state is insert_many and data is not a list; it accepts a dict for
\* find_one and insert_one and a list for insert_many.
C8_ValidateAcceptsDocumentedTypes ==
    Validated =>
        (ValidationFailed <=>
            \/ params.data.type \notin {"dict", "list"}
            \/ (params.state = "insert_many" /\ params.data.type # "list"))

\* the position of an operation in the log of main (0: not issued)
IssuedAt(op) ==
    IF \E i \in 1..Len(mlog) : mlog[i] = op
    THEN CHOOSE i \in 1..Len(mlog) : mlog[i] = op
    ELSE 0

\* C5: check_compatibility runs before any document operation; only the
\* connection, the authentication and the server-version query precede it; when
\* it fails, no document operation is issued in that run.
C5_CompatibilityCheckFirst ==
    /\ IssuedAt("execute") # 0 =>
          /\ IssuedAt("check_compatibility") # 0
          /\ IssuedAt("check_compatibility") < IssuedAt("execute")
          /\ check_compatibility(srv_version, params.driver_version)
    /\ \A i \in 1..Len(mlog) :
          (IssuedAt("check_compatibility") = 0 \/ i < IssuedAt("check_compatibility")) =>
              mlog[i] \in {"connect", "authenticate", "server_info"}
    /\ (srv_version # <<>> /\ ~check_compatibility(srv_version, params.driver_version)) =>
          IssuedAt("execute") = 0

C5_Witness ==
    /\ mexit = "exit_json"
    /\ mlog = <<"connect", "authenticate", "server_info", "check_compatibility", "execute">>

====
